---- MODULE Spec2Model ----
(***************************************************************************)
(* Chat-App: the socket.io chat server (chat-app/server.js) as a state     *)
(* machine.  Node runs every handler to completion; the only points where  *)
(* other handlers can interleave are the two awaits on the Valkey client   *)
(* (lpush in handleMessage, lrange in loadHistoricalMessages).  The client *)
(* is one ioredis connection: commands are executed in the order they were *)
(* sent and their promises settle in that same order.  A command either    *)
(* takes effect and succeeds, or has no effect and is rejected.            *)
(***************************************************************************)
EXTENDS Integers, Sequences, FiniteSets, TLC

\* ------------------------------------------------------------------ bounds
\* the sockets that ever connect and the sends that are accepted: in a run
\* with one name (Spec), in a run with every kind of name (SpecNames), in a
\* run with concurrent senders (SpecOrder)
NumSockets == 2
MaxSends == 1
NamesSockets == 3
NamesSends == 1
OrderSockets == 2
OrderSends == 2
LoadSockets == 2
LoadSends == 1
CaseSockets == 2
CaseSends == 1
FaultSockets == 2
FaultSends == 1
\* the client: how many messages fit on its screen, how many there are, how
\* long a page can be
MaxShown == 3
MaxStamp == 3
MaxPage == 2

\* enough socket ids for the largest run
Larger(a, b) == IF a >= b THEN a ELSE b
MostSockets ==
    Larger(Larger(Larger(NumSockets, NamesSockets), Larger(OrderSockets, LoadSockets)),
           Larger(CaseSockets, FaultSockets))

Sockets == 1..MostSockets

\* ------------------------------------------------------- JavaScript values
\* The JS value undefined (a missing property, an unset socket.username).
Undefined == "<undefined>"
\* An event emitted by the client with no payload object at all.
NoData == [nodata |-> TRUE]
IsObject(data) == "nodata" \notin DOMAIN data

Names == {"ada", "Ada"}

\* what a client can put in select_username: a name, "", or nothing at all
SelectPayloads == {[username |-> u] : u \in Names \cup {""}} \cup {NoData}
\* what a client can put in message: its own idea of who it is, a text (or
\* none), a timestamp; or nothing at all
MessagePayloads ==
    {[username |-> "ada", message |-> "hi", timestamp |-> "T1"],
     [username |-> "Ada", message |-> Undefined, timestamp |-> "T1"],
     NoData}

\* the events the server registers a listener for, once the backlog is pushed
ServerEvents == {"select_username", "message", "disconnect"}
\* the events the client emits
ClientEvents == {"select_username", "message", "load_more_messages", "clear_history"}

\* the clients and the store of a run: how many sockets connect, how many
\* sends are accepted, what the clients emit, which commands Valkey may fail
OneNameLimits ==
    [sockets |-> NumSockets, sends |-> MaxSends,
     selects |-> {[username |-> "ada"]},
     messages |-> MessagePayloads,
     events |-> {"select_username"},
     failing |-> {"lpush"}]
NamesLimits ==
    [sockets |-> NamesSockets, sends |-> NamesSends,
     selects |-> SelectPayloads,
     messages |-> {[username |-> "ada", message |-> "hi", timestamp |-> "T1"], NoData},
     events |-> {"select_username"},
     failing |-> {}]
OrderLimits ==
    [sockets |-> OrderSockets, sends |-> OrderSends,
     selects |-> {[username |-> "ada"]},
     messages |-> {[username |-> "ada", message |-> "hi", timestamp |-> "T1"]},
     events |-> {"select_username"},
     failing |-> {"lpush"}]
LoadLimits ==
    [sockets |-> LoadSockets, sends |-> LoadSends,
     selects |-> {[username |-> "ada"]},
     messages |-> {[username |-> "ada", message |-> "hi", timestamp |-> "T1"]},
     events |-> {"select_username", "clear_history"},
     failing |-> {"lrange"}]
\* names that differ in letter case only
CaseLimits ==
    [sockets |-> CaseSockets, sends |-> CaseSends,
     selects |-> {[username |-> u] : u \in Names},
     messages |-> {[username |-> "ada", message |-> "hi", timestamp |-> "T1"]},
     events |-> {"select_username"},
     failing |-> {}]
\* every store command may fail; the clients ask for pages too
FaultLimits ==
    [sockets |-> FaultSockets, sends |-> FaultSends,
     selects |-> {[username |-> "ada"]},
     messages |-> {[username |-> "ada", message |-> "hi", timestamp |-> "T1"]},
     events |-> {"select_username", "load_more_messages"},
     failing |-> {"lpush", "lrange"}]

\* The JS value null (the client's selectedUsername before a name is accepted).
Null == "<null>"
\* JS truthiness of a name: undefined, null and "" are falsy
Truthy(v) == v \notin {Undefined, Null, ""}

\* ------------------------------------------------------------------- state
VARIABLES
    phase,            \* per socket: "idle" | "loading" | "ready" | "closed"
    username,         \* socket.username
    activeUsernames,  \* the Set of names in use
    store,            \* the Valkey list chat_messages, head first
    commandQueue,     \* commands sent to Valkey, not yet executed
    replyQueue,       \* executed commands whose promise has not settled yet
    crashed,          \* the process died of an uncaught exception
    sendLog,          \* history: per accepted send, who sent it and what the client put in
    timeline,         \* history: per socket, the message ids delivered, in order
                      \* (0: the backlog, followed by 0 - id for each message in it)
    last,             \* history: the step just taken
    out,              \* history: the events that step delivered, in order
    limits,           \* the clients and the store of this run (never changes)
    display,          \* one client: the messages in its chat list, top first
    loadedMessageCount,  \* that client: how many messages it has loaded
    hasMoreMessages,  \* that client: whether it thinks there are more to load
    selectedUsername, \* that client: the name the server accepted, or null
    messageInput,     \* that client: the text in its message box
    notices           \* history: per name, the user_joined broadcasts made minus
                      \* the user_left broadcasts made

vars == <<phase, username, activeUsernames, store, commandQueue, replyQueue,
          crashed, sendLog, timeline, last, out, limits,
          display, loadedMessageCount, hasMoreMessages, selectedUsername, messageInput,
          notices>>

\* the client's message form
form == <<selectedUsername, messageInput>>
\* what the steps of the server leave alone
fixed == <<limits, display, loadedMessageCount, hasMoreMessages, form>>
\* what the steps of the client leave alone
server == <<phase, username, activeUsernames, store, commandQueue, replyQueue,
            crashed, sendLog, timeline, limits, notices>>

Connected(s) == phase[s] \in {"loading", "ready"}
Live == {s \in Sockets : Connected(s)}

\* the connection handler registers the listeners after the awaited backlog load
ListeningOnceConnected(s) == Connected(s)
Listening(s) == phase[s] = "ready"
\* the server has a listener for this event of this socket
Listens(s, type) == Listening(s) /\ type \in ServerEvents

Event(type, data, id) == [type |-> type, data |-> data, id |-> id]
Step(op, s, arg) == [op |-> op, sock |-> s, arg |-> arg]

\* ------------------------------------------------------------ the store
MessageKeys == <<"username", "message", "timestamp">>

\* JSON.stringify drops the keys whose value is undefined
JSONstringify(obj) ==
    LET pairs == [i \in 1..Len(MessageKeys) |-> <<MessageKeys[i], obj[MessageKeys[i]]>>]
    IN SelectSeq(pairs, LAMBDA p : p[2] # Undefined)

\* reading a key the text does not have gives undefined
JSONget(str, key) ==
    IF \E i \in 1..Len(str) : str[i][1] = key
    THEN str[CHOOSE i \in 1..Len(str) : str[i][1] = key][2]
    ELSE Undefined

JSONparse(str) ==
    [username |-> JSONget(str, "username"),
     message |-> JSONget(str, "message"),
     timestamp |-> JSONget(str, "timestamp")]

\* what socket.io puts on the wire is JSON too: the receiver sees the parsed text
Wire(obj) == JSONparse(JSONstringify(obj))

NoMessage == [username |-> Undefined, message |-> Undefined, timestamp |-> Undefined]

\* LPUSH puts the element at the head of the list
LpushReplacing(list, item) == <<item>>
Lpush(list, item) == <<item>> \o list
\* LRANGE key 0 -1 returns the whole list, head first
LrangeFromSecond(list) == SubSeq(list, 2, Len(list))
Lrange(list) == list

\* the single connection: the oldest command is executed / settled next
NextToExecute(q) == 1

NextToSettleNewest(q) == Len(q)
NextToSettlePushFirst(q) ==
    IF \E i \in 1..Len(q) : q[i].op = "lpush"
    THEN CHOOSE i \in 1..Len(q) : q[i].op = "lpush" /\ \A j \in 1..(i - 1) : q[j].op # "lpush"
    ELSE 1
NextToSettle(q) == 1

RemoveAt(q, i) == SubSeq(q, 1, i - 1) \o SubSeq(q, i + 1, Len(q))

\* ------------------------------------------------------------ emitting
EmitTo(targets, ev) ==
    LET all == [i \in 1..MostSockets |-> [to |-> i, ev |-> ev]]
    IN SelectSeq(all, LAMBDA o : o.to \in targets)

\* socket.emit: to this socket (nothing is delivered once it is gone)
SocketEmitToAll(live, s, ev) == EmitTo(live, ev)
SocketEmit(live, s, ev) == EmitTo(live \cap {s}, ev)

\* io.emit: to every connected socket, the sender included
IoRecipientsOthers(live, s) == live \ {s}
IoRecipients(live, s) == live

\* socket.broadcast.emit: to every connected socket but this one
BroadcastRecipientsAll(live, s) == live
BroadcastRecipients(live, s) == live \ {s}

\* what a client notes of one event: the id of a message; for the backlog a
\* 0 and then the ids of the messages in it, each written as 0 - id
Shown(ev) ==
    IF ev.type = "historical_messages"
    THEN <<0>> \o [k \in 1..Len(ev.data.ids) |-> 0 - ev.data.ids[k]]
    ELSE <<ev.id>>

RECURSIVE ShownAll(_)
ShownAll(events) ==
    IF events = <<>> THEN <<>> ELSE Shown(Head(events).ev) \o ShownAll(Tail(events))

\* what each socket's client has seen of the conversation
Observe(tl, o) ==
    [s \in Sockets |->
        LET mine == SelectSeq(o, LAMBDA e : e.to = s
                                   /\ e.ev.type \in {"message", "historical_messages"})
        IN tl[s] \o ShownAll(mine)]

\* ------------------------------------------------------------------- Init
Start(l) ==
    /\ limits = l
    /\ phase = [s \in Sockets |-> "idle"]
    /\ username = [s \in Sockets |-> Undefined]
    /\ activeUsernames = {}
    /\ store = <<>>
    /\ commandQueue = <<>>
    /\ replyQueue = <<>>
    /\ crashed = FALSE
    /\ sendLog = <<>>
    /\ timeline = [s \in Sockets |-> <<>>]
    /\ last = Step("init", 0, NoData)
    /\ out = <<>>
    /\ display = <<>>
    /\ loadedMessageCount = 0
    /\ hasMoreMessages = TRUE
    /\ selectedUsername = Null
    /\ messageInput = ""
    /\ notices = [n \in Names \cup {"", Undefined} |-> 0]

\* ---------------------------------------------------------- the registry
IsTakenNever(reg, name) == FALSE
LowerCase(name) == IF name = "Ada" THEN "ada" ELSE name
IsTakenIgnoringCase(reg, name) == LowerCase(name) \in {LowerCase(n) : n \in reg}
IsTaken(reg, name) == name \in reg

RegistryAdd(reg, name) == reg \cup {name}

RegistryKeep(reg, name) == reg
RegistryClear(reg, name) == {}
RegistryDelete(reg, name) == reg \ {name}

TakenText == "Username is already taken. Please choose another."
NoNameText == "Please select a username before sending messages."
SendFailedText == "Failed to send message. Please try again."
LoadFailedText == "Failed to load chat history."

\* ------------------------------------------------------------- connection
\* io.on('connection') up to its await: loadHistoricalMessages sends LRANGE
onConnection(s) ==
    /\ ~crashed
    /\ UNCHANGED <<fixed, notices>>
    /\ phase[s] = "idle"
    /\ s <= limits.sockets
    /\ \A t \in Sockets : t < s => phase[t] # "idle"   \* socket ids are handed out in order
    /\ phase' = [phase EXCEPT ![s] = "loading"]
    /\ commandQueue' = Append(commandQueue,
                              [op |-> "lrange", sock |-> s, id |-> 0, msg |-> NoMessage])
    /\ last' = Step("connection", s, NoData)
    /\ out' = <<>>
    /\ UNCHANGED <<username, activeUsernames, store, replyQueue, crashed, sendLog, timeline>>

\* Valkey executes the next command: it succeeds and takes effect, or fails
RedisExecute ==
    /\ ~crashed
    /\ UNCHANGED <<fixed, notices>>
    /\ commandQueue # <<>>
    /\ LET i == NextToExecute(commandQueue)
           cmd == commandQueue[i]
       IN \E ok \in {TRUE} \cup {FALSE : x \in {cmd.op} \cap limits.failing} :
            /\ commandQueue' = RemoveAt(commandQueue, i)
            /\ store' = IF ok /\ cmd.op = "lpush"
                        THEN Lpush(store, [id |-> cmd.id, json |-> JSONstringify(cmd.msg)])
                        ELSE store
            /\ replyQueue' = Append(replyQueue,
                  [op |-> cmd.op, sock |-> cmd.sock, id |-> cmd.id, msg |-> cmd.msg,
                   ok |-> ok,
                   result |-> IF ok /\ cmd.op = "lrange" THEN Lrange(store) ELSE <<>>])
            /\ last' = Step("valkey", cmd.sock, [op |-> cmd.op, ok |-> ok, id |-> cmd.id])
    /\ out' = <<>>
    /\ UNCHANGED <<phase, username, activeUsernames, crashed, sendLog, timeline>>

\* the catch block of loadHistoricalMessages
OnLoadFailureSilent(live, s) == <<>>
OnLoadFailureTwice(live, s) ==
    SocketEmit(live, s, Event("error", [message |-> LoadFailedText], 0))
    \o SocketEmit(live, s, Event("error", [message |-> LoadFailedText], 0))
OnLoadFailureToAll(live, s) == EmitTo(live, Event("error", [message |-> LoadFailedText], 0))
OnLoadFailure(live, s) == SocketEmit(live, s, Event("error", [message |-> LoadFailedText], 0))

\* loadHistoricalMessages after its await, then the rest of the connection
\* handler: the three listeners are registered
loadHistoricalMessages ==
    /\ ~crashed
    /\ UNCHANGED <<fixed, notices>>
    /\ replyQueue # <<>>
    /\ LET i == NextToSettle(replyQueue)
           r == replyQueue[i]
           parsedMessages == [k \in 1..Len(r.result) |-> JSONparse(r.result[k].json)]
           ids == [k \in 1..Len(r.result) |-> r.result[k].id]
           ev == Event("historical_messages", [messages |-> parsedMessages, ids |-> ids], 0)
       IN /\ r.op = "lrange"
          /\ replyQueue' = RemoveAt(replyQueue, i)
          /\ out' = IF r.ok THEN SocketEmit(Live, r.sock, ev) ELSE OnLoadFailure(Live, r.sock)
          /\ timeline' = Observe(timeline, out')
          /\ phase' = [phase EXCEPT ![r.sock] = IF @ = "loading" THEN "ready" ELSE @]
          /\ last' = Step("history", r.sock, [ok |-> r.ok])
    /\ UNCHANGED <<username, activeUsernames, store, commandQueue, crashed, sendLog>>

\* ------------------------------------------------------ select_username
handleUsernameSelection(s, data) ==
    /\ ~crashed
    /\ UNCHANGED fixed
    /\ Listening(s)
    /\ last' = Step("select_username", s, data)
    /\ IF ~IsObject(data)
       THEN \* const { username } = data throws; nothing catches it
            /\ crashed' = TRUE
            /\ out' = <<>>
            /\ UNCHANGED <<phase, username, activeUsernames, store, commandQueue,
                           replyQueue, sendLog, timeline, notices>>
       ELSE IF IsTaken(activeUsernames, data.username)
       THEN /\ out' = SocketEmit(Live, s, Event("username_taken", [message |-> TakenText], 0))
            /\ UNCHANGED <<phase, username, activeUsernames, store, commandQueue,
                           replyQueue, crashed, sendLog, timeline, notices>>
       ELSE /\ activeUsernames' = RegistryAdd(activeUsernames, data.username)
            /\ username' = [username EXCEPT ![s] = data.username]
            /\ out' = SocketEmit(Live, s,
                                 Event("username_accepted", [username |-> data.username], 0))
                      \o EmitTo(BroadcastRecipients(Live, s),
                                Event("user_joined", [username |-> data.username], 0))
            /\ notices' = [notices EXCEPT ![data.username] = @ + 1]
            /\ UNCHANGED <<phase, store, commandQueue, replyQueue, crashed, sendLog, timeline>>

\* ----------------------------------------------------------------- message
HasUsernameAlways(name) == TRUE
HasUsername(name) == Truthy(name)

messageDataFromClient(name, data) ==
    [username |-> data.username, message |-> data.message, timestamp |-> data.timestamp]
messageData(name, data) ==
    [username |-> name, message |-> data.message, timestamp |-> data.timestamp]

\* handleMessage up to its await: the name check, the record, LPUSH is sent
handleMessage(s, data) ==
    /\ ~crashed
    /\ UNCHANGED <<fixed, notices>>
    /\ Listening(s)
    /\ last' = Step("message", s, data)
    /\ IF ~HasUsername(username[s])
       THEN /\ out' = SocketEmit(Live, s, Event("error", [message |-> NoNameText], 0))
            /\ UNCHANGED <<phase, username, activeUsernames, store, commandQueue,
                           replyQueue, crashed, sendLog, timeline>>
       ELSE IF ~IsObject(data)
       THEN \* data.message throws inside the async function: an unhandled
            \* rejection, which ends the process or only warns, by Node version
            /\ crashed' \in BOOLEAN
            /\ out' = <<>>
            /\ UNCHANGED <<phase, username, activeUsernames, store, commandQueue,
                           replyQueue, sendLog, timeline>>
       ELSE /\ Len(sendLog) < limits.sends
            /\ sendLog' = Append(sendLog, [sock |-> s, name |-> username[s], data |-> data])
            /\ commandQueue' = Append(commandQueue,
                   [op |-> "lpush", sock |-> s, id |-> Len(sendLog) + 1,
                    msg |-> messageData(username[s], data)])
            /\ out' = <<>>
            /\ UNCHANGED <<phase, username, activeUsernames, store, replyQueue,
                           crashed, timeline>>

\* what handleMessage does once the awaited LPUSH has settled
OnStoredIfSenderLive(live, r) ==
    IF r.sock \in live
    THEN EmitTo(IoRecipients(live, r.sock), Event("message", Wire(r.msg), r.id))
    ELSE <<>>
OnStored(live, r) ==
    EmitTo(IoRecipients(live, r.sock), Event("message", Wire(r.msg), r.id))

OnStoreFailureBroadcast(live, r) ==
    EmitTo(IoRecipients(live, r.sock), Event("message", Wire(r.msg), r.id))
OnStoreFailureToAll(live, r) ==
    EmitTo(live, Event("error", [message |-> SendFailedText], 0))
OnStoreFailure(live, r) ==
    SocketEmit(live, r.sock, Event("error", [message |-> SendFailedText], 0))

\* handleMessage after its await: io.emit on success, the catch block on failure
handleMessageSettled ==
    /\ ~crashed
    /\ UNCHANGED <<fixed, notices>>
    /\ replyQueue # <<>>
    /\ LET i == NextToSettle(replyQueue)
           r == replyQueue[i]
       IN /\ r.op = "lpush"
          /\ replyQueue' = RemoveAt(replyQueue, i)
          /\ out' = IF r.ok THEN OnStored(Live, r) ELSE OnStoreFailure(Live, r)
          /\ timeline' = Observe(timeline, out')
          /\ last' = Step("settled", r.sock, [ok |-> r.ok, id |-> r.id])
    /\ UNCHANGED <<phase, username, activeUsernames, store, commandQueue, crashed, sendLog>>

\* -------------------------------------------------------------- disconnect
\* the transport closes; handleDisconnection runs if its listener is registered
handleDisconnection(s) ==
    /\ ~crashed
    /\ UNCHANGED fixed
    /\ Connected(s)
    /\ phase' = [phase EXCEPT ![s] = "closed"]
    /\ last' = Step("disconnect", s, [listening |-> Listening(s)])
    /\ IF Listening(s) /\ HasUsername(username[s])
       THEN /\ activeUsernames' = RegistryDelete(activeUsernames, username[s])
            /\ out' = EmitTo(BroadcastRecipients(Live, s),
                             Event("user_left", [username |-> username[s]], 0))
            /\ notices' = [notices EXCEPT ![username[s]] = @ - 1]
       ELSE /\ out' = <<>>
            /\ UNCHANGED <<activeUsernames, notices>>
    /\ UNCHANGED <<username, store, commandQueue, replyQueue, crashed, sendLog, timeline>>

\* an event the server has no listener for - any event that arrives before
\* the listeners are registered, and at any time an event the server never
\* listens for - finds no listener: nothing runs
EventWithoutListener(s, type) ==
    /\ ~crashed
    /\ UNCHANGED <<fixed, notices>>
    /\ Connected(s)
    /\ ~Listens(s, type)
    /\ last' = Step("unheard", s, [type |-> type])
    /\ out' = <<>>
    /\ UNCHANGED <<phase, username, activeUsernames, store, commandQueue, replyQueue,
                   crashed, sendLog, timeline>>

\* ------------------------------------------------------------------- Next
Next ==
    \/ \E s \in Sockets : onConnection(s)
    \/ RedisExecute
    \/ loadHistoricalMessages
    \/ \E s \in Sockets : \E data \in limits.selects : handleUsernameSelection(s, data)
    \/ \E s \in Sockets : \E data \in limits.messages : handleMessage(s, data)
    \/ handleMessageSettled
    \/ \E s \in Sockets : handleDisconnection(s)
    \/ \E s \in Sockets : \E type \in limits.events : EventWithoutListener(s, type)

Init == Start(OneNameLimits)
Spec == Init /\ [][Next]_vars

InitNames == Start(NamesLimits)
SpecNames == InitNames /\ [][Next]_vars

InitOrder == Start(OrderLimits)
SpecOrder == InitOrder /\ [][Next]_vars

InitLoad == Start(LoadLimits)
SpecLoad == InitLoad /\ [][Next]_vars

InitCase == Start(CaseLimits)
SpecCase == InitCase /\ [][Next]_vars

InitFault == Start(FaultLimits)
SpecFault == InitFault /\ [][Next]_vars

\* ------------------------------------------------------------- the client
\* One client (main.js) on its own: its chat list and its paging state, and
\* the handlers of the events it listens for.  A message is known by its
\* stamp, its place in the order in which the messages were sent.
Stamps == 1..MaxStamp
\* the client asks for, and counts in, pages of this many messages
PageLimit == 50

\* element.insertBefore(firstChild) or appendChild
addMessageToChat(list, message, prepend) ==
    IF prepend THEN <<message>> \o list ELSE Append(list, message)

\* messages.forEach(message => addMessageToChat(..., prepend))
RECURSIVE forEachAdd(_, _, _)
forEachAdd(list, messages, prepend) ==
    IF messages = <<>> THEN list
    ELSE forEachAdd(addMessageToChat(list, Head(messages), prepend), Tail(messages), prepend)

clearChatDisplayKeepingCount ==
    [display |-> <<>>, loadedMessageCount |-> loadedMessageCount, hasMoreMessages |-> TRUE]
clearChatDisplay ==
    [display |-> <<>>, loadedMessageCount |-> 0, hasMoreMessages |-> TRUE]

\* the sequences of at most n stamps, each later than the one before
RECURSIVE ChronologicalPages(_)
ChronologicalPages(n) ==
    IF n = 0 THEN {<<>>}
    ELSE LET shorter == ChronologicalPages(n - 1)
             longer == {x \in shorter \X Stamps :
                           /\ Len(x[1]) = n - 1
                           /\ (x[1] = <<>> \/ x[1][Len(x[1])] < x[2])}
         IN shorter \cup {Append(x[1], x[2]) : x \in longer}

\* socket.on('message')
onMessage(data) ==
    /\ Len(display) < MaxShown
    /\ display' = addMessageToChat(display, data, FALSE)
    /\ last' = Step("message", 1, [stamp |-> data])
    /\ out' = <<>>
    /\ UNCHANGED <<server, loadedMessageCount, hasMoreMessages, form>>

\* socket.on('historical_messages')
onHistoricalMessages(messages) ==
    /\ display' = forEachAdd(<<>>, messages, FALSE)
    /\ loadedMessageCount' = Len(messages)
    /\ hasMoreMessages' = (Len(messages) >= PageLimit)
    /\ last' = Step("historical_messages", 1, [messages |-> messages])
    /\ out' = <<>>
    /\ UNCHANGED <<server, form>>

\* socket.on('paginated_messages')
handleLoadMoreMessages(data) ==
    /\ Len(display) + Len(data.messages) <= MaxShown
    /\ display' = forEachAdd(display, data.messages, TRUE)
    /\ loadedMessageCount' = data.offset
    /\ hasMoreMessages' = data.hasMore
    /\ last' = Step("paginated_messages", 1, data)
    /\ out' = <<>>
    /\ UNCHANGED <<server, form>>

\* socket.on('history_cleared')
onHistoryCleared(data) ==
    /\ display' = clearChatDisplay.display
    /\ loadedMessageCount' = clearChatDisplay.loadedMessageCount
    /\ hasMoreMessages' = clearChatDisplay.hasMoreMessages
    /\ last' = Step("history_cleared", 1, [clearedBy |-> data.clearedBy, shown |-> Len(display)])
    /\ out' = <<>>
    /\ UNCHANGED <<server, form>>

\* what the user can have in the message box
Inputs == {"", " ", "hi", " hi "}
\* String.prototype.trim
trim(text) == IF text \in {"", " "} THEN "" ELSE "hi"

\* socket.on('username_accepted')
handleUsernameAccepted(data) ==
    /\ selectedUsername' = data.username
    /\ last' = Step("username_accepted", 1, data)
    /\ out' = <<>>
    /\ UNCHANGED <<server, display, loadedMessageCount, hasMoreMessages, messageInput>>

\* the user edits the message box
onInput(text) ==
    /\ messageInput' = text
    /\ last' = Step("input", 1, [value |-> text])
    /\ out' = <<>>
    /\ UNCHANGED <<server, display, loadedMessageCount, hasMoreMessages, selectedUsername>>

\* if (!message || !selectedUsername) return;
CanSubmitAnyText(message, name) == Truthy(name)
CanSubmit(message, name) == message # "" /\ Truthy(name)

\* the message form is submitted; an emit goes to the server (to |-> 0)
handleMessageSubmit ==
    LET message == trim(messageInput)
    IN /\ last' = Step("submit", 1, [value |-> messageInput])
       /\ IF ~CanSubmit(message, selectedUsername)
          THEN /\ out' = <<>>
               /\ UNCHANGED messageInput
          ELSE /\ out' = <<[to |-> 0,
                            ev |-> Event("message",
                                         [username |-> selectedUsername, message |-> message,
                                          timestamp |-> "T1"], 0)]>>
               /\ messageInput' = ""
       /\ UNCHANGED <<server, display, loadedMessageCount, hasMoreMessages, selectedUsername>>

NextClient ==
    \/ \E data \in Stamps : onMessage(data)
    \/ \E messages \in ChronologicalPages(MaxShown) : onHistoricalMessages(messages)
    \/ \E messages \in ChronologicalPages(MaxPage) : \E hasMore \in BOOLEAN :
          \E offset \in {0, loadedMessageCount + Len(messages)} :
             handleLoadMoreMessages([messages |-> messages, hasMore |-> hasMore,
                                     offset |-> offset])
    \/ onHistoryCleared([clearedBy |-> "ada"])
    \/ \E name \in Names : handleUsernameAccepted([username |-> name])
    \/ \E text \in Inputs : onInput(text)
    \/ handleMessageSubmit

InitClient == Start(OneNameLimits)
SpecClient == InitClient /\ [][NextClient]_vars

TypeOK ==
    /\ phase \in [Sockets -> {"idle", "loading", "ready", "closed"}]
    /\ activeUsernames \subseteq Names \cup {"", Undefined}
    /\ crashed \in BOOLEAN

\* =================================================================== claims
\* what a step delivered
Got(o, s, type) == \E k \in 1..Len(o) : o[k].to = s /\ o[k].ev.type = type
GotAccepted(o, s, n) ==
    \E k \in 1..Len(o) : /\ o[k].to = s
                         /\ o[k].ev.type = "username_accepted"
                         /\ o[k].ev.data.username = n
Holders(n) == {s \in Sockets : Connected(s) /\ username[s] = n}

\* C1: a select_username is accepted exactly when its name is not in the
\* registry, an accepted name is in the registry afterwards, and no step but a
\* disconnect takes a name out of the registry; so of two live sessions that
\* ask for the same free name with no disconnect in between, the first is
\* answered username_accepted and the second username_taken.  In no state do
\* two live sessions hold the same claimed name.
C1_ExactlyOneClaimSucceeds ==
    [][/\ \A a, b \in Sockets :
            (a # b /\ Connected(a)' /\ Connected(b)' /\ username'[a] # Undefined)
               => username'[a] # username'[b]
       /\ (last'.op # "disconnect") => (activeUsernames \subseteq activeUsernames')
       /\ (last'.op = "select_username" /\ IsObject(last'.arg)) =>
            LET s == last'.sock
                n == last'.arg.username
            IN IF n \in activeUsernames
               THEN /\ Got(out', s, "username_taken")
                    /\ ~Got(out', s, "username_accepted")
                    /\ UNCHANGED <<username, activeUsernames>>
               ELSE /\ GotAccepted(out', s, n)
                    /\ ~Got(out', s, "username_taken")
                    /\ n \in activeUsernames'
                    /\ username'[s] = n
      ]_vars

\* two live sessions asked for the same name: the first holds it, the second
\* was just told username_taken
C1_Witness ==
    /\ last.op = "select_username"
    /\ IsObject(last.arg)
    /\ Got(out, last.sock, "username_taken")
    /\ \E a \in Sockets : /\ a # last.sock
                          /\ Connected(a)
                          /\ Truthy(username[a])
                          /\ username[a] = last.arg.username

\* C2: a name is in activeUsernames if and only if exactly one live session
\* has it as its claimed name.
C2_RegistryIffHeld ==
    \A n \in Names : (n \in activeUsernames) <=> (Cardinality(Holders(n)) = 1)

\* C3: once a session has a claimed name, no later select_username changes it.
C3_NameSetOnce ==
    [][\A s \in Sockets : username[s] # Undefined => username'[s] = username[s]]_vars

ErrorTo(s, text) == [to |-> s, ev |-> Event("error", [message |-> text], 0)]
Stored(id) == \E i \in 1..Len(store) : store[i].id = id
StoredRecord(id) == JSONparse(store[CHOOSE i \in 1..Len(store) : store[i].id = id].json)
\* how many records were in the store before this one: LPUSH keeps the newest first
AppendRank(id) == Len(store) - (CHOOSE i \in 1..Len(store) : store[i].id = id)
MessagesSeen(s) == {k \in 1..Len(timeline[s]) : timeline[s][k] > 0}

\* C4: a message from a session with no claimed name is answered with one
\* error event to that session and nothing else: nothing is stored or sent to
\* Valkey, nobody else is sent anything, no session and no registry entry changes.
C4_UnnamedSendRejected ==
    [][(last'.op = "message" /\ ~Truthy(username[last'.sock])) =>
          /\ out' = <<ErrorTo(last'.sock, NoNameText)>>
          /\ UNCHANGED <<phase, username, activeUsernames, store, commandQueue,
                         replyQueue, crashed, sendLog, timeline>>
      ]_vars

\* an unnamed session was just refused while another session is connected
C4_Witness ==
    /\ last.op = "message"
    /\ ~Truthy(username[last.sock])
    /\ out = <<ErrorTo(last.sock, NoNameText)>>
    /\ \E t \in Sockets : t # last.sock /\ Connected(t)

\* the record an accepted send must produce: the sender's claimed name when
\* the send was accepted, with the client's text and timestamp
Expected(id) ==
    [username |-> sendLog[id].name,
     message |-> sendLog[id].data.message,
     timestamp |-> sendLog[id].data.timestamp]

\* C5: every stored record and every broadcast message carries the claimed
\* name its sender had when the send was accepted, and is the same whatever
\* username the client put in the payload.
C5_ServerNameWins ==
    /\ \A i \in 1..Len(store) : JSONparse(store[i].json) = Expected(store[i].id)
    /\ \A k \in 1..Len(out) :
          out[k].ev.type = "message" => out[k].ev.data = Expected(out[k].ev.id)

\* a send whose payload named somebody else has been stored and broadcast
C5_Witness ==
    /\ last.op = "settled"
    /\ last.arg.ok
    /\ out # <<>>
    /\ Stored(last.arg.id)
    /\ sendLog[last.arg.id].data.username # sendLog[last.arg.id].name

\* C6: whoever is delivered two messages is delivered them in the order in
\* which they were appended to the store.
C6_DeliveryFollowsAppendOrder ==
    \A s \in Sockets : \A i, j \in MessagesSeen(s) :
        i < j => /\ Stored(timeline[s][i])
                 /\ Stored(timeline[s][j])
                 /\ AppendRank(timeline[s][i]) < AppendRank(timeline[s][j])

\* one session has been delivered two messages of two different senders
C6_Witness ==
    \E s \in Sockets : \E i, j \in MessagesSeen(s) :
        i < j /\ sendLog[timeline[s][i]].sock # sendLog[timeline[s][j]].sock

\* C7: when the append of a send has failed, the step that handles the
\* failure delivers one error event to the sender (if it is still connected)
\* and nothing to anyone else, the message is in no store and no timeline, and
\* the server is still running: a select_username of a ready session is handled.
C7_FailedAppendOnlyError ==
    (last.op = "settled" /\ ~last.arg.ok) =>
        /\ out = IF Connected(last.sock) THEN <<ErrorTo(last.sock, SendFailedText)>> ELSE <<>>
        /\ ~Stored(last.arg.id)
        /\ \A s \in Sockets : \A k \in MessagesSeen(s) : timeline[s][k] # last.arg.id
        /\ ~crashed
        /\ \A s \in Sockets :
              phase[s] = "ready" => ENABLED handleUsernameSelection(s, [username |-> "ada"])

\* an append failed while its sender and another session were connected
C7_Witness ==
    /\ last.op = "settled"
    /\ ~last.arg.ok
    /\ out = <<ErrorTo(last.sock, SendFailedText)>>
    /\ \E t \in Sockets : t # last.sock /\ Connected(t)

\* C8: every message that was delivered to a session is in the store.
C8_DeliveredWasStored ==
    /\ \A s \in Sockets : \A k \in MessagesSeen(s) : Stored(timeline[s][k])
    /\ \A k \in 1..Len(out) : out[k].ev.type = "message" => Stored(out[k].ev.id)

\* a stored message is in the timeline of a session that did not send it
C8_Witness ==
    \E s \in Sockets : \E k \in MessagesSeen(s) :
        /\ Stored(timeline[s][k])
        /\ sendLog[timeline[s][k]].sock # s

\* C9: when the append of a send has succeeded, the step that handles it
\* delivers one message event, holding the stored record, to every connected
\* session - the sender and the unnamed ones included - and to nobody else.
C9_BroadcastToAllLive ==
    (last.op = "settled" /\ last.arg.ok) =>
        /\ Stored(last.arg.id)
        /\ Len(out) = Cardinality(Live)
        /\ \A s \in Live : \E k \in 1..Len(out) : out[k].to = s
        /\ \A k \in 1..Len(out) :
              /\ out[k].to \in Live
              /\ out[k].ev = Event("message", StoredRecord(last.arg.id), last.arg.id)

\* a message was just broadcast to its sender and to an unnamed session
C9_Witness ==
    /\ last.op = "settled"
    /\ last.arg.ok
    /\ Got(out, last.sock, "message")
    /\ \E t \in Sockets : /\ t # last.sock
                          /\ username[t] = Undefined
                          /\ Got(out, t, "message")

\* ---------------------------------------------------------------- history
\* the backlog events of the step just taken
Backlogs == {k \in 1..Len(out) : out[k].ev.type = "historical_messages"}

\* C11: in a historical_messages array, a message that was appended to the
\* store before another one comes before it.
C11_BacklogOldestFirst ==
    \A k \in Backlogs :
        LET ids == out[k].ev.data.ids
        IN \A i, j \in 1..Len(ids) :
              AppendRank(ids[i]) < AppendRank(ids[j]) => i < j

\* C12: a successful range read returns every record of the store once and
\* nothing else, and leaves the store alone; the historical_messages event
\* made from a reply holds exactly the records of that reply, parsed, each once.
C12_BacklogIsWholeStore ==
    [][/\ (last'.op = "valkey" /\ last'.arg.op = "lrange" /\ last'.arg.ok) =>
            LET result == replyQueue'[Len(replyQueue')].result
            IN /\ store' = store
               /\ Len(result) = Len(store)
               /\ \A i \in 1..Len(store) :
                     Cardinality({k \in 1..Len(result) : result[k] = store[i]}) = 1
       /\ (last'.op = "history" /\ last'.arg.ok /\ Connected(last'.sock)) =>
            LET result == replyQueue[1].result
            IN /\ Len(out') = 1
               /\ out'[1].to = last'.sock
               /\ out'[1].ev.type = "historical_messages"
               /\ Len(out'[1].ev.data.ids) = Len(result)
               /\ Len(out'[1].ev.data.messages) = Len(result)
               /\ \A i \in 1..Len(result) :
                     /\ Cardinality({k \in 1..Len(result) :
                                        out'[1].ev.data.ids[k] = result[i].id}) = 1
                     /\ \A k \in 1..Len(result) :
                           out'[1].ev.data.ids[k] = result[i].id
                              => out'[1].ev.data.messages[k] = StoredRecord(result[i].id)
      ]_vars

\* a session that connected after a message was stored got it in its backlog
C12_Witness ==
    /\ last.op = "history"
    /\ last.arg.ok
    /\ \E k \in Backlogs : /\ out[k].to = last.sock
                            /\ Len(out[k].ev.data.ids) >= 1
                            /\ Stored(out[k].ev.data.ids[1])

\* the backlog load of this connection has not come back yet
LoadPending(s) ==
    \/ \E i \in 1..Len(commandQueue) : commandQueue[i].op = "lrange" /\ commandQueue[i].sock = s
    \/ \E i \in 1..Len(replyQueue) : replyQueue[i].op = "lrange" /\ replyQueue[i].sock = s

\* C13: a handler of a connection (select_username, message, the disconnect
\* cleanup) runs only when that connection's backlog load has come back and
\* its historical_messages or load-failure error has been emitted.
C13_NoEventBeforeBacklog ==
    [][(\/ last'.op \in {"select_username", "message"}
        \/ (last'.op = "disconnect" /\ last'.arg.listening))
          => /\ phase[last'.sock] # "idle"
             /\ ~LoadPending(last'.sock)
      ]_vars

\* a select_username arrived while the range read had been done but the
\* backlog had not been pushed yet: no handler ran
C13_Witness ==
    /\ last.op = "unheard"
    /\ last.arg.type = "select_username"
    /\ \E i \in 1..Len(replyQueue) :
          replyQueue[i].op = "lrange" /\ replyQueue[i].sock = last.sock

\* ------------------------------------------------------------ name claims
Delivery(s, type, data) == [to |-> s, ev |-> Event(type, data, 0)]
Deliveries(o) == {o[k] : k \in 1..Len(o)}

\* C14: a select_username of a name that is not in the registry sets the
\* session's name, delivers username_accepted to the claimer and to nobody
\* else, and user_joined with that name to every other connected session and
\* not to the claimer; nothing is delivered twice.
C14_AcceptedClaimEffects ==
    [][(/\ last'.op = "select_username"
        /\ IsObject(last'.arg)
        /\ last'.arg.username \notin activeUsernames) =>
          LET s == last'.sock
              n == last'.arg.username
          IN /\ username'[s] = n
             /\ \A t \in Sockets \ {s} : username'[t] = username[t]
             /\ Deliveries(out') =
                   {Delivery(s, "username_accepted", [username |-> n])}
                   \cup {Delivery(t, "user_joined", [username |-> n]) : t \in Live \ {s}}
             /\ Len(out') = Cardinality(Live)
      ]_vars

\* a claim was just accepted while another session was connected, which got
\* the join notice
C14_Witness ==
    /\ last.op = "select_username"
    /\ IsObject(last.arg)
    /\ username[last.sock] = last.arg.username
    /\ Delivery(last.sock, "username_accepted", [username |-> last.arg.username])
          \in Deliveries(out)
    /\ \E t \in Live \ {last.sock} :
          Delivery(t, "user_joined", [username |-> last.arg.username]) \in Deliveries(out)

\* C15: a select_username of a name that is in the registry delivers one
\* username_taken to the requester and nothing to anyone else, and changes
\* neither the registry, nor any session's name, nor the store, nor what is
\* on its way to the store.
C15_TakenClaimNoEffect ==
    [][(/\ last'.op = "select_username"
        /\ IsObject(last'.arg)
        /\ last'.arg.username \in activeUsernames) =>
          /\ out' = <<Delivery(last'.sock, "username_taken", [message |-> TakenText])>>
          /\ UNCHANGED <<phase, username, activeUsernames, store, commandQueue,
                         replyQueue, crashed, sendLog, timeline>>
      ]_vars

\* a claim was just refused while the holder of the name was connected
C15_Witness ==
    /\ last.op = "select_username"
    /\ IsObject(last.arg)
    /\ out = <<Delivery(last.sock, "username_taken", [message |-> TakenText])>>
    /\ username[last.sock] # last.arg.username
    /\ \E t \in Live \ {last.sock} : username[t] = last.arg.username

\* C16: when a session whose name claim was accepted disconnects, user_left
\* with its name is delivered to every other connected session; when a
\* session without a name disconnects, nothing is delivered to anyone and
\* the registry does not change.
C16_DisconnectNotices ==
    [][(last'.op = "disconnect") =>
          LET s == last'.sock
          IN IF username[s] # Undefined
             THEN Deliveries(out') =
                    {Delivery(t, "user_left", [username |-> username[s]]) : t \in Live \ {s}}
             ELSE /\ out' = <<>>
                  /\ UNCHANGED activeUsernames
      ]_vars

\* C17: a select_username with an empty or missing username is not accepted:
\* something is delivered to the requester and nothing to anyone else, and
\* neither the registry nor any session's name changes.
C17_EmptyNameRejected ==
    [][(/\ last'.op = "select_username"
        /\ IsObject(last'.arg)
        /\ ~Truthy(last'.arg.username)) =>
          /\ out' # <<>>
          /\ \A k \in 1..Len(out') : /\ out'[k].to = last'.sock
                                      /\ out'[k].ev.type # "username_accepted"
          /\ UNCHANGED <<activeUsernames, username>>
      ]_vars

\* C18: after a select_username or message with no data object the server
\* is running, the sender is still connected and an error event was
\* delivered to it.
C18_MalformedPayloadAnswered ==
    (last.op \in {"select_username", "message"} /\ ~IsObject(last.arg)) =>
        /\ ~crashed
        /\ Connected(last.sock)
        /\ Got(out, last.sock, "error")

\* --------------------------------------------------------- failed backlog
\* a session whose listeners are registered and that never got a backlog:
\* its range read failed
LoadFailed(s) == phase[s] = "ready" /\ \A k \in 1..Len(timeline[s]) : timeline[s][k] # 0

\* C19: the step that handles a failed range read delivers one error event
\* to the connecting session (if it is still connected) and nothing to anyone
\* else, and the server keeps running; the session's listeners are
\* registered all the same: its select_username is answered, and its message
\* is refused for want of a name or goes to the store.
C19_LoadFailureOnlyError ==
    /\ (last.op = "history" /\ ~last.arg.ok) =>
          /\ out = IF Connected(last.sock)
                   THEN <<Delivery(last.sock, "error", [message |-> LoadFailedText])>>
                   ELSE <<>>
          /\ ~crashed
          /\ Connected(last.sock) => LoadFailed(last.sock)
    /\ \A s \in Sockets : (LoadFailed(s) /\ ~crashed) =>
          /\ ENABLED handleUsernameSelection(s, [username |-> "ada"])
          /\ \/ HasUsername(username[s]) /\ Len(sendLog) >= limits.sends
             \/ ENABLED handleMessage(s, [username |-> "ada", message |-> "hi", timestamp |-> "T1"])
    /\ (last.op = "select_username" /\ LoadFailed(last.sock)) =>
          \/ Got(out, last.sock, "username_accepted")
          \/ Got(out, last.sock, "username_taken")
    /\ (last.op = "message" /\ LoadFailed(last.sock)) =>
          \/ out = <<ErrorTo(last.sock, NoNameText)>>
          \/ /\ commandQueue # <<>>
             /\ commandQueue[Len(commandQueue)].op = "lpush"
             /\ commandQueue[Len(commandQueue)].sock = last.sock

\* a range read just failed while another session was connected
C19_Witness ==
    /\ last.op = "history"
    /\ ~last.arg.ok
    /\ out = <<Delivery(last.sock, "error", [message |-> LoadFailedText])>>
    /\ \E t \in Live : t # last.sock

\* a session whose range read failed has claimed a name, sent a message and
\* been delivered it
LoadFailedThenServed ==
    \E s \in Sockets : /\ LoadFailed(s)
                        /\ HasUsername(username[s])
                        /\ \E k \in MessagesSeen(s) : sendLog[timeline[s][k]].sock = s

\* ------------------------------------------------------------ clear_history
\* C20: when a clear_history of a session whose backlog has been pushed has
\* arrived at the server, the store is empty and nothing is on its way to
\* it, so that the next range read returns the empty list.
C20_ClearHistoryEmptiesStore ==
    (/\ last.op = "unheard"
     /\ last.arg.type = "clear_history"
     /\ phase[last.sock] = "ready"
     /\ commandQueue = <<>>) => store = <<>>

\* a request of this type from a session whose listeners are registered has
\* just arrived at the server
Requested(type) ==
    /\ last.op = "unheard"
    /\ last.arg.type = type
    /\ phase[last.sock] = "ready"

\* C21: when a clear_history of a session has arrived at the server, a
\* history_cleared event naming that session is delivered to every connected
\* session, the requester included.
C21_ClearHistoryAnnounced ==
    Requested("clear_history") =>
        \A s \in Live : \E k \in 1..Len(out) :
            /\ out[k].to = s
            /\ out[k].ev.type = "history_cleared"
            /\ out[k].ev.data.clearedBy \in {last.sock, username[last.sock]}

\* ---------------------------------------------------------------- paging
\* the paginated_messages events delivered to the requester by the step just taken
Pages == {k \in 1..Len(out) : out[k].to = last.sock /\ out[k].ev.type = "paginated_messages"}

\* C22: when a load_more_messages of a session has arrived at the server,
\* the session is delivered a paginated_messages event or an error event.
C22_PageRequestAnswered ==
    Requested("load_more_messages") =>
        \/ Pages # {}
        \/ Got(out, last.sock, "error")

\* C23: paging from the start of a store that holds messages yields a first
\* page that is not empty, holds stored messages only, none of them twice,
\* the oldest first.
C23_PagingExhaustive ==
    (Requested("load_more_messages") /\ store # <<>> /\ commandQueue = <<>>) =>
        \E k \in Pages :
            LET ids == out[k].ev.data.ids
            IN /\ ids # <<>>
               /\ \A i \in 1..Len(ids) : Stored(ids[i])
               /\ \A i, j \in 1..Len(ids) :
                     i < j => AppendRank(ids[i]) < AppendRank(ids[j])
               /\ AppendRank(ids[1]) = 0

\* ------------------------------------------------- sends in flight, the store
\* C24: a disconnect cancels nothing that is on its way to the store or back;
\* the append of a send whose sender has gone stores the record with the
\* name the sender had when the send was accepted; and when that append has
\* succeeded, the record is delivered as a message event to every session
\* connected at that time and to nobody else.
C24_AcceptedSendSurvivesDisconnect ==
    [][/\ (last'.op = "disconnect") => UNCHANGED <<store, commandQueue, replyQueue>>
       /\ (/\ last'.op = "valkey"
           /\ last'.arg.op = "lpush"
           /\ last'.arg.ok
           /\ ~Connected(last'.sock)) =>
             /\ Len(store') = Len(store) + 1
             /\ store'[1].id = last'.arg.id
             /\ JSONparse(store'[1].json) = Expected(last'.arg.id)
       /\ (last'.op = "settled" /\ last'.arg.ok /\ ~Connected(last'.sock)) =>
             /\ Deliveries(out') =
                   {[to |-> t, ev |-> Event("message", Expected(last'.arg.id), last'.arg.id)] :
                       t \in Live}
             /\ Len(out') = Cardinality(Live)
      ]_vars

\* a message was just delivered whose sender had gone while it was being
\* stored, to a session that has claimed the sender's name since
C24_Witness ==
    /\ last.op = "settled"
    /\ last.arg.ok
    /\ phase[last.sock] = "closed"
    /\ \E t \in Live : /\ username[t] = sendLog[last.arg.id].name
                        /\ Got(out, t, "message")

\* C25: no step removes or alters a record of the store or changes the order
\* of the records; the only step that changes the store is a successful
\* append, which adds the record of one accepted send.
C25_StoreAppendOnly ==
    [][/\ Len(store') >= Len(store)
       /\ \A i \in 1..Len(store) : store'[Len(store') - Len(store) + i] = store[i]
       /\ (store' # store) =>
             /\ last'.op = "valkey"
             /\ last'.arg.op = "lpush"
             /\ last'.arg.ok
             /\ Len(store') = Len(store) + 1
             /\ store'[1].id = last'.arg.id
             /\ last'.arg.id \in 1..Len(sendLog)
             /\ ~Stored(last'.arg.id)
       /\ (last'.op = "valkey" /\ last'.arg.op = "lpush" /\ last'.arg.ok) => store' # store
      ]_vars

\* a session just got a backlog that holds a message whose author has gone
C25_Witness ==
    /\ last.op = "history"
    /\ last.arg.ok
    /\ \E k \in Backlogs : \E i \in 1..Len(out[k].ev.data.ids) :
          /\ out[k].to = last.sock
          /\ phase[sendLog[out[k].ev.data.ids[i]].sock] = "closed"

\* ------------------------------------------------------------------ errors
\* C26: an error event is delivered only by the step that handles a request
\* of a session (its message, the settling of its append, its backlog load)
\* and only to that session.
C26_ErrorsToOriginOnly ==
    \A k \in 1..Len(out) :
        out[k].ev.type = "error" =>
            /\ out[k].to = last.sock
            /\ last.op \in {"message", "settled", "history"}

\* an error was just delivered to a session while a named session was connected
C26_Witness ==
    /\ Got(out, last.sock, "error")
    /\ \E t \in Live \ {last.sock} : HasUsername(username[t])

\* ------------------------------------------------------------ the registry
\* C27: in every registry the server reaches, releasing a name that is not
\* in it gives the same registry, and releasing a name twice gives what
\* releasing it once gives; the disconnect handler never ends the process.
C27_ReleaseIdempotent ==
    /\ \A n \in Names \cup {"", Undefined} :
          /\ n \notin activeUsernames => RegistryDelete(activeUsernames, n) = activeUsernames
          /\ RegistryDelete(RegistryDelete(activeUsernames, n), n)
                = RegistryDelete(activeUsernames, n)
          /\ n \notin RegistryDelete(activeUsernames, n)
    /\ last.op = "disconnect" => ~crashed

\* a session has just released its name and another name is still held
C27_Witness ==
    /\ last.op = "disconnect"
    /\ last.arg.listening
    /\ HasUsername(username[last.sock])
    /\ username[last.sock] \notin activeUsernames
    /\ activeUsernames # {}

\* C28: a select_username is answered username_taken exactly when the very
\* string it asks for is in the registry; a name that differs from the
\* registered ones, be it in letter case only, is accepted.
C28_ExactMatchOnly ==
    [][(last'.op = "select_username" /\ IsObject(last'.arg)) =>
          /\ Got(out', last'.sock, "username_taken") <=> last'.arg.username \in activeUsernames
          /\ last'.arg.username \notin activeUsernames =>
                /\ GotAccepted(out', last'.sock, last'.arg.username)
                /\ activeUsernames' = activeUsernames \cup {last'.arg.username}
      ]_vars

\* two connected sessions hold names that differ in letter case only
C28_Witness ==
    /\ last.op = "select_username"
    /\ GotAccepted(out, last.sock, last.arg.username)
    /\ \E t \in Live \ {last.sock} :
          /\ username[t] # username[last.sock]
          /\ {username[t], username[last.sock]} = {"ada", "Ada"}
          /\ {"ada", "Ada"} \subseteq activeUsernames

\* -------------------------------------------------------------- the client
\* C29: when the client has handled a paginated_messages page (whose
\* messages are in chronological order), its chat list is the page, in that
\* order, followed by what the list was before.
C29_PageShownChronologically ==
    [][(last'.op = "paginated_messages") => display' = last'.arg.messages \o display]_vars

\* C30: when the client has handled history_cleared, its chat list is empty
\* and its count of loaded messages is 0.
C30_ClearedDisplayEmpty ==
    [][(last'.op = "history_cleared") => (display' = <<>> /\ loadedMessageCount' = 0)]_vars

\* the client showed messages and has just handled history_cleared
C30_Witness ==
    /\ last.op = "history_cleared"
    /\ last.arg.shown > 0
    /\ display = <<>>
    /\ loadedMessageCount = 0

\* ------------------------------------------------------- one backlog each
\* the step just taken delivered an outcome of the backlog load to s
LoadOutcome(o, s) ==
    \/ Got(o, s, "historical_messages")
    \/ Delivery(s, "error", [message |-> LoadFailedText]) \in Deliveries(o)

\* C31: a connection's backlog is loaded once: only the step that ends the
\* load delivers historical_messages or the load-failure error, it delivers
\* one event, to the connecting session, which had none before; a session
\* that is still connected when its load ends gets one of the two; and no
\* session is ever loading again.
C31_OneLoadOutcome ==
    [][\A s \in Sockets :
          /\ LoadOutcome(out', s) =>
                /\ last'.op = "history"
                /\ last'.sock = s
                /\ Len(out') = 1
                /\ phase[s] = "loading"
                /\ phase'[s] = "ready"
                /\ \A k \in 1..Len(timeline[s]) : timeline[s][k] # 0
          /\ (phase[s] = "loading" /\ phase'[s] = "ready") => LoadOutcome(out', s)
          /\ (phase'[s] = "loading") => phase[s] \in {"idle", "loading"}
          /\ Cardinality({k \in 1..Len(timeline'[s]) : timeline'[s][k] = 0}) <= 1
      ]_vars

\* a session got its backlog and, later, a message
C31_Witness ==
    \E s \in Sockets : \E i, j \in 1..Len(timeline[s]) :
        /\ i < j
        /\ timeline[s][i] = 0
        /\ timeline[s][j] > 0

\* ------------------------------------------------------- the message form
\* C32: only a submit of the message form emits a message event, and only
\* when a name has been accepted and the trimmed text is not empty; what is
\* emitted carries that name and the trimmed text; a submit in any other
\* case emits nothing and leaves the message box as it is.
C32_SubmitOnlyNamedNonEmpty ==
    [][LET ok == selectedUsername # Null /\ trim(messageInput) # ""
       IN /\ out' # <<>> =>
               /\ last'.op = "submit"
               /\ ok
               /\ out' = <<[to |-> 0,
                            ev |-> Event("message",
                                         [username |-> selectedUsername,
                                          message |-> trim(messageInput),
                                          timestamp |-> "T1"], 0)]>>
          /\ (last'.op = "submit" /\ ~ok) => (out' = <<>> /\ messageInput' = messageInput)
      ]_vars

\* a text with blanks around it was just sent, trimmed, under the accepted name
C32_Witness ==
    /\ last.op = "submit"
    /\ last.arg.value = " hi "
    /\ Len(out) = 1
    /\ out[1].ev.data.message = "hi"
    /\ out[1].ev.data.username = selectedUsername
    /\ messageInput = ""

\* ------------------------------------------- a session joining mid-traffic
BacklogAt(s) == {k \in 1..Len(timeline[s]) : timeline[s][k] = 0}
\* the message ids inside the backlog a session was sent
InBacklog(s) == {0 - timeline[s][k] : k \in {j \in 1..Len(timeline[s]) : timeline[s][j] < 0}}
\* the positions of the message events a session got before / after its backlog
SeenBefore(s) == {k \in MessagesSeen(s) : \A b \in BacklogAt(s) : k < b}
SeenAfter(s) == {k \in MessagesSeen(s) : \A b \in BacklogAt(s) : k > b}
\* the append of this message succeeded and handleMessage went on to io.emit
Announced(id) ==
    /\ Stored(id)
    /\ \A i \in 1..Len(replyQueue) : ~(replyQueue[i].op = "lpush" /\ replyQueue[i].id = id)

\* C35: once a session has been sent its backlog, a message event it got
\* before the backlog is also inside the backlog, no message is both inside
\* the backlog and in a later message event, no message event comes twice,
\* and, while the session is connected, every message whose append succeeded
\* and was announced is inside the backlog or in a message event after it.
C35_ShownOnceAfterBacklog ==
    \A s \in Sockets : BacklogAt(s) # {} =>
        /\ \A k \in SeenBefore(s) : timeline[s][k] \in InBacklog(s)
        /\ \A k \in SeenAfter(s) : timeline[s][k] \notin InBacklog(s)
        /\ \A i, j \in SeenAfter(s) : timeline[s][i] = timeline[s][j] => i = j
        /\ \A i, j \in 1..Len(timeline[s]) :
              (timeline[s][i] < 0 /\ timeline[s][i] = timeline[s][j]) => i = j
        /\ Connected(s) =>
              \A id \in 1..Len(sendLog) : Announced(id) =>
                  \/ id \in InBacklog(s)
                  \/ \E k \in SeenAfter(s) : timeline[s][k] = id

\* a session got a message event while its backlog read was pending, and the
\* backlog it was then sent holds that message
C35_Witness ==
    \E s \in Sockets : \E k \in SeenBefore(s) :
        /\ BacklogAt(s) # {}
        /\ timeline[s][k] \in InBacklog(s)
        /\ sendLog[timeline[s][k]].sock # s

\* --------------------------------------------------- when everyone is gone
NobodyConnected == \A s \in Sockets : ~Connected(s)

\* C33: when no session is connected the registry is empty.
C33_RegistryEmptyAfterAll == NobodyConnected => activeUsernames = {}

\* C34: a select_username or message event from a connected session is
\* answered in the step that takes it, or leaves an append pending whose
\* completion answers it - also when it arrives while the backlog read of
\* that session is pending.
C34_EveryEventAnswered ==
    (\/ last.op \in {"select_username", "message"}
     \/ last.op = "unheard" /\ last.arg.type \in {"select_username", "message"}) =>
        \/ \E k \in 1..Len(out) :
              /\ out[k].to = last.sock
              /\ out[k].ev.type \in {"username_accepted", "username_taken", "error", "message"}
        \/ \E i \in 1..Len(commandQueue) :
              commandQueue[i].op = "lpush" /\ commandQueue[i].sock = last.sock

\* C36: the count the client sends as the next offset is the number of
\* messages it displays.
C36_CountEqualsDisplayed == loadedMessageCount = Len(display)

\* C37: for every name there are never more user_left broadcasts than
\* user_joined broadcasts, and as many once no session is connected.
C37_NoticesBalanced ==
    \A n \in DOMAIN notices :
        /\ notices[n] >= 0
        /\ NobodyConnected => notices[n] = 0
====
